---- MODULE Spec2Model ----
(***************************************************************************)
(* NeuroNap: sleep debt, circadian rhythm, log analysis, recommendations   *)
(* and the sleep-quality prediction fallback (backend.py, ml.py).          *)
(*                                                                         *)
(* Representation.                                                         *)
(*   - a time string is a sequence of one-character strings, so that       *)
(*     datetime.strptime / strftime are modelled character by character;   *)
(*   - a datetime is the number of seconds since 1900-01-01 00:00:00, the  *)
(*     date strptime gives a value parsed with "%H:%M";                    *)
(*   - a timedelta is a number of seconds;                                 *)
(*   - a float number of hours is kept exactly: a duration is its number   *)
(*     of seconds, a clock hour (hour + minute/60) its number of minutes,  *)
(*     and a value rounded to 2 decimals its number of hundredths;         *)
(*   - the anchor hours of the energy curve are kept as the doubles the    *)
(*     program computes, see the section on the control points.            *)
(***************************************************************************)
EXTENDS Integers, Sequences, FiniteSets, TLC

VARIABLES
    pc,          \* position of the caller: which call comes next
    sleep_time,  \* argument: sleep start time string
    wake_time,   \* argument: wake time string
    energy,      \* argument: reported energy level
    sleep_debt,  \* result of calculate_sleep_debt (hundredths of an hour)
    rhythm,      \* result of calculate_circadian_rhythm (the returned dict)
    locals,      \* local variables of the calls that have returned
    chronotype,     \* argument of generate_recommendations
    sleep_quality,  \* result of predict_sleep_quality, argument of generate_recommendations
    tips,           \* result of generate_recommendations
    logs,           \* argument of analyze_sleep_logs
    analysis,       \* result of analyze_sleep_logs
    ml_model,       \* the classifier, or None
    ml_scaler,      \* the feature scaler, or None
    sleep_duration, \* argument of predict_sleep_quality (hundredths of an hour)
    activity,       \* argument of predict_sleep_quality (minutes)
    stress,         \* argument of predict_sleep_quality
    dataset,        \* the dataset file train_model reads
    exc,            \* the exception in flight inside train_model, if any
    users,          \* table users of neuronap.db
    sleep_logs,     \* table sleep_logs of neuronap.db
    db_call,        \* the last database call made outside a GUI callback: name, arguments
    db_result,      \* what that call returned, or the exception it raised
    db_lock,        \* a connection that was never closed holds the write lock
    user_id,        \* NeuroNapApp.user_id
    user_name,      \* NeuroNapApp.user_name
    last_inputs,    \* NeuroNapApp.last_inputs
    message,        \* the message box the last callback showed, <<>> if none
    event           \* the last callback that ran, how it ended, what it read

timeVars == <<sleep_time, wake_time, energy>>
recVars == <<chronotype, sleep_quality, tips>>
logVars == <<logs, analysis>>
mlVars == <<ml_model, ml_scaler, sleep_duration, activity, stress>>
trainVars == <<dataset, exc>>
dbVars == <<users, sleep_logs, db_call, db_result, db_lock>>
appVars == <<user_id, user_name, last_inputs, message, event>>

vars == <<pc, timeVars, sleep_debt, rhythm, locals, recVars, logVars, mlVars, trainVars, dbVars, appVars>>

\* A variable that holds nothing yet (Python: not assigned).
Unset == "unset"

-----------------------------------------------------------------------------
(* Bounds of the model and constants of the program *)

\* Minutes m with m % MinuteStride = MinuteStride - 1 are offered as inputs,
\* next to the quarter hours of the GUI's dropdowns.
MinuteStride == 30
\* The GUI's time dropdowns hold every quarter hour (gui.py, self.times).
QuarterHour == 15

SecondsPerMinute == 60
SecondsPerHour == 3600
SecondsPerDay == 86400
MinutesPerHour == 60
HoursPerDay == 24

-----------------------------------------------------------------------------
(* datetime.strptime(s, "%H:%M") and datetime.strftime("%H:%M") *)

Digits == <<"0", "1", "2", "3", "4", "5", "6", "7", "8", "9">>

IsDigit(c) == \E i \in 1..10 : Digits[i] = c

DigitVal(c) == (CHOOSE i \in 1..10 : Digits[i] = c) - 1

\* Number of characters the directive %H consumes at the start of s, 0 if it
\* does not match: the alternatives 2[0-3], [0-1]\d, \d are tried in this order.
HourLen(s) ==
    IF Len(s) >= 2 /\ s[1] = "2" /\ s[2] \in {"0", "1", "2", "3"} THEN 2
    ELSE IF Len(s) >= 2 /\ s[1] \in {"0", "1"} /\ IsDigit(s[2]) THEN 2
    ELSE IF Len(s) >= 1 /\ IsDigit(s[1]) THEN 1
    ELSE 0

\* Mutant of MinuteLen: the minute must be written with two digits.
MinuteLenTwoDigits(s, p) ==
    IF Len(s) >= p + 1 /\ s[p] \in {"0", "1", "2", "3", "4", "5"} /\ IsDigit(s[p + 1]) THEN 2
    ELSE 0

\* Number of characters the directive %M consumes from position p of s, 0 if
\* it does not match: the alternatives [0-5]\d, \d are tried in this order.
MinuteLen(s, p) ==
    IF Len(s) >= p + 1 /\ s[p] \in {"0", "1", "2", "3", "4", "5"} /\ IsDigit(s[p + 1]) THEN 2
    ELSE IF Len(s) >= p /\ IsDigit(s[p]) THEN 1
    ELSE 0

\* The number the digits s[p .. p+n-1] spell, n being 1 or 2.
NumberAt(s, p, n) ==
    IF n = 2 THEN 10 * DigitVal(s[p]) + DigitVal(s[p + 1]) ELSE DigitVal(s[p])

\* datetime.strptime(s, "%H:%M") raises ValueError: s does not match the
\* format, or data remains unconverted after the match.
StrptimeRaises(s) ==
    LET hl == HourLen(s)
        ml == MinuteLen(s, hl + 2)
    IN  IF hl = 0 THEN TRUE
        ELSE IF Len(s) < hl + 1 THEN TRUE
        ELSE IF s[hl + 1] /= ":" THEN TRUE
        ELSE IF ml = 0 THEN TRUE
        ELSE Len(s) /= hl + 1 + ml

\* datetime.strptime(s, "%H:%M") when it does not raise: the datetime
\* 1900-01-01 HH:MM:00.
Strptime(s) ==
    LET hl == HourLen(s)
        ml == MinuteLen(s, hl + 2)
    IN  NumberAt(s, 1, hl) * SecondsPerHour
        + NumberAt(s, hl + 2, ml) * SecondsPerMinute

\* The fields of a datetime.
HourOf(dt) == (dt \div SecondsPerHour) % HoursPerDay
MinuteOf(dt) == (dt \div SecondsPerMinute) % MinutesPerHour

\* A number below 100 as two digits, zero-padded (the "%02d" of %H and %M).
TwoDigits(n) == <<Digits[(n \div 10) + 1], Digits[(n % 10) + 1]>>

\* dt.strftime("%H:%M")
Strftime(dt) == TwoDigits(HourOf(dt)) \o <<":">> \o TwoDigits(MinuteOf(dt))

\* Mutant of HoursDelta: timedelta(minutes=h).
HoursDeltaAsMinutes(h) == h * SecondsPerMinute

\* timedelta(hours=h) for a whole number of hours h.
HoursDelta(h) == h * SecondsPerHour

-----------------------------------------------------------------------------
(* round(x, 2) *)

\* round(num / den) to the nearest integer, a tie going to the even
\* neighbour, as Python's round does; num >= 0, den > 0.
RoundHalfEven(num, den) ==
    LET q == num \div den
        r == num % den
    IN  IF 2 * r < den THEN q
        ELSE IF 2 * r > den THEN q + 1
        ELSE IF q % 2 = 0 THEN q ELSE q + 1

-----------------------------------------------------------------------------
(* backend.calculate_sleep_debt *)

\* The sleep target, 8 hours (the literal 8 of the return statement).
TargetHours == 8

\* Lines 31-33: the wake datetime moved to the next day when it is before the
\* sleep datetime, then the seconds of the difference.
SleepDebtDuration(sleep_dt, wake_dt) ==
    LET wake_dt2 == IF wake_dt < sleep_dt THEN wake_dt + SecondsPerDay ELSE wake_dt
    IN  (wake_dt2 - sleep_dt) % SecondsPerDay

\* Mutant of DebtOfDuration: the debt is taken against a 7-hour target.
DebtOfDurationSevenHours(duration) ==
    LET short == 7 * SecondsPerHour - duration
    IN  RoundHalfEven(100 * (IF short > 0 THEN short ELSE 0), SecondsPerHour)

\* round(max(8 - duration, 0), 2), in hundredths of an hour; duration in seconds.
DebtOfDuration(duration) ==
    LET short == TargetHours * SecondsPerHour - duration
    IN  RoundHalfEven(100 * (IF short > 0 THEN short ELSE 0), SecondsPerHour)

\* calculate_sleep_debt raises: one of its two strptime calls does.
SleepDebtRaises(st, wt) == StrptimeRaises(st) \/ StrptimeRaises(wt)

\* The value calculate_sleep_debt returns when it does not raise.
calculate_sleep_debt(st, wt) ==
    LET sleep_dt == Strptime(st)
        wake_dt == Strptime(wt)
    IN  DebtOfDuration(SleepDebtDuration(sleep_dt, wake_dt))

-----------------------------------------------------------------------------
(* backend.calculate_circadian_rhythm *)

\* Chronotype thresholds on the midpoint hour, in minutes: 3.5 h and 5 h.
EarlyBirdBefore == 210
IntermediateBefore == 300

\* Offsets of the key circadian times from the wake time, in hours.
MorningPeakOffset == 3
DipOffset == 7
EveningPeakOffset == 11

\* Mutant of RhythmDuration: a wake time equal to the sleep time is taken as
\* the next day (<= for <) and the whole difference is used (total_seconds()).
RhythmDurationFullWheel(sleep_dt, wake_dt) ==
    LET wake_dt2 == IF wake_dt <= sleep_dt THEN wake_dt + SecondsPerDay ELSE wake_dt
    IN  wake_dt2 - sleep_dt

\* Lines 49-51: the same computation as in calculate_sleep_debt, written again.
RhythmDuration(sleep_dt, wake_dt) ==
    LET wake_dt2 == IF wake_dt < sleep_dt THEN wake_dt + SecondsPerDay ELSE wake_dt
    IN  (wake_dt2 - sleep_dt) % SecondsPerDay

\* The wake datetime after line 49-50.
RhythmWakeDt(sleep_dt, wake_dt) ==
    IF wake_dt < sleep_dt THEN wake_dt + SecondsPerDay ELSE wake_dt

\* midpoint_dt = sleep_dt + timedelta(hours=duration / 2)
MidpointDt(sleep_dt, duration) == sleep_dt + duration \div 2

\* midpoint_dt.hour + midpoint_dt.minute / 60, in minutes.
MidpointHour(midpoint_dt) == HourOf(midpoint_dt) * MinutesPerHour + MinuteOf(midpoint_dt)

\* Mutant of Chronotype: <= for < at the first threshold.
ChronotypeInclusive(h) ==
    IF h <= EarlyBirdBefore THEN "Early Bird"
    ELSE IF h < IntermediateBefore THEN "Intermediate"
    ELSE "Night Owl"

\* The conditional expression of line 56 (and of line 108), h in minutes.
Chronotype(h) ==
    IF h < EarlyBirdBefore THEN "Early Bird"
    ELSE IF h < IntermediateBefore THEN "Intermediate"
    ELSE "Night Owl"

\* calculate_circadian_rhythm raises: one of its two strptime calls does.
CircadianRhythmRaises(st, wt) == StrptimeRaises(st) \/ StrptimeRaises(wt)

\* The dict calculate_circadian_rhythm returns when it does not raise
\* (without the sampled curve).
calculate_circadian_rhythm(st, wt, e) ==
    LET sleep_dt == Strptime(st)
        wake_dt0 == Strptime(wt)
        wake_dt == RhythmWakeDt(sleep_dt, wake_dt0)
        duration == RhythmDuration(sleep_dt, wake_dt0)
        midpoint_dt == MidpointDt(sleep_dt, duration)
    IN      [midpoint |-> Strftime(midpoint_dt),
             chronotype |-> Chronotype(MidpointHour(midpoint_dt)),
             wake_time |-> Strftime(wake_dt),
             morning_peak |-> Strftime(wake_dt + HoursDelta(MorningPeakOffset)),
             dip_time |-> Strftime(wake_dt + HoursDelta(DipOffset)),
             evening_peak |-> Strftime(wake_dt + HoursDelta(EveningPeakOffset)),
             bedtime |-> st]

-----------------------------------------------------------------------------
(* The control points of the energy curve (lines 59-67)                      *)
(*                                                                           *)
(* The anchor hours are IEEE-754 doubles. A double x that stands for the     *)
(* clock value of q minutes is written <<q, dev>> with                       *)
(*     x = q/60 + dev / (60 * 2^58),                                         *)
(* dev being the (small) distance of the double from q/60. Every double met  *)
(* here is a multiple of 2^-58, so its numerator N = x * 2^58 satisfies      *)
(* 60 N = q 2^58 + dev, hence 15 N = dev/4 (mod 4096): the low twelve bits   *)
(* of N, which decide every rounding below, follow from dev alone.           *)

\* The spacing of the doubles in the binade of a value whose integer part is
\* ip >= 1, in units of 2^-58 (53 significant bits).
Ulp(ip) ==
    IF ip < 2 THEN 64 ELSE IF ip < 4 THEN 128 ELSE IF ip < 8 THEN 256
    ELSE IF ip < 16 THEN 512 ELSE IF ip < 32 THEN 1024 ELSE 2048

\* The spacing of the doubles in the binade of m/60, 1 <= m <= 59, in units
\* of 2^-58, and the residue of 2^58 / spacing modulo 60.
FractionUlp(m) ==
    IF m < 2 THEN 1 ELSE IF m < 4 THEN 2 ELSE IF m < 8 THEN 4
    ELSE IF m < 15 THEN 8 ELSE IF m < 30 THEN 16 ELSE 32
PowerMod60(g) ==
    IF g = 1 THEN 4 ELSE IF g = 2 THEN 32 ELSE IF g = 4 THEN 16
    ELSE IF g = 8 THEN 8 ELSE IF g = 16 THEN 4 ELSE 32

\* The numerator of the double <<q, dev>> modulo M, M a power of two up to
\* 4096; 3823 is the inverse of 15 modulo 4096.
LowBits(dev, M) == (((dev \div 4) % M) * (3823 % M)) % M

\* The exact value <<q, dev>> rounded to the nearest double of the binade of
\* integer part ip, ties to the even numerator; an integer part of 0 is met
\* only with a value that is a double already.
RoundToDouble(x, ip) ==
    IF ip = 0 THEN x
    ELSE LET U == Ulp(ip)
             l == LowBits(x[2], 2 * U)
             r == l % U
             adj == IF 2 * r < U THEN 0 - r
                    ELSE IF 2 * r > U THEN U - r
                    ELSE IF l < U THEN 0 - r ELSE U - r
         IN  <<x[1], x[2] + 60 * adj>>

\* minute / 60: the double nearest to the quotient (no quotient is a tie).
MinuteFraction(m) ==
    IF m = 0 THEN <<0, 0>>
    ELSE LET g == FractionUlp(m)
             r == (m * PowerMod60(g)) % 60
         IN  <<m, g * (IF r < 30 THEN 0 - r ELSE 60 - r)>>

\* dt.hour + dt.minute / 60
HourFloat(h, m) == RoundToDouble(<<60 * h + m, MinuteFraction(m)[2]>>, h)

\* x + k for a double x in [0, 24) and an int k.
FloatAdd(x, k) == RoundToDouble(<<x[1] + 60 * k, x[2]>>, (x[1] \div 60) + k)

\* Mutant of FloatMod24: the hour is not wrapped.
FloatNoWrap(x) == x

\* x % 24 for a double x in [0, 48): the difference is exact.
FloatMod24(x) ==
    IF x[1] >= HoursPerDay * MinutesPerHour
    THEN <<x[1] - HoursPerDay * MinutesPerHour, x[2]>>
    ELSE x

\* x < y for doubles.
FloatLess(x, y) == x[1] < y[1] \/ (x[1] = y[1] /\ x[2] < y[2])

\* sorted(S) for a set of doubles.
RECURSIVE SortedFloats(_)
SortedFloats(S) ==
    IF S = {} THEN <<>>
    ELSE LET least == CHOOSE x \in S : \A y \in S : ~FloatLess(y, x)
         IN  <<least>> \o SortedFloats(S \ {least})

\* list.index(h): the first position of h.
IndexOf(xs, h) == CHOOSE i \in 1..Len(xs) : xs[i] = h /\ \A j \in 1..(i - 1) : xs[j] /= h

\* Line 63.
base_energy == <<2, 2, 10, 3, 7, 2, 2>>

\* Line 59: wake_hour, from the wake datetime of line 50.
WakeHour(wake_dt) == HourFloat(HourOf(wake_dt), MinuteOf(wake_dt))

\* Line 60: sleep_hour; it is at most 47 + 59/60.
SleepHour(sleep_dt, wake_dt) ==
    IF sleep_dt > wake_dt
    THEN HourFloat(HourOf(sleep_dt), MinuteOf(sleep_dt))
    ELSE FloatAdd(HourFloat(HourOf(sleep_dt), MinuteOf(sleep_dt)), HoursPerDay)

\* Line 61: key_hours.
KeyHours(wake_hour, sleep_hour) ==
    << <<0, 0>>,
       wake_hour,
       FloatMod24(FloatAdd(wake_hour, MorningPeakOffset)),
       FloatMod24(FloatAdd(wake_hour, DipOffset)),
       FloatMod24(FloatAdd(wake_hour, EveningPeakOffset)),
       FloatMod24(sleep_hour),
       <<HoursPerDay * MinutesPerHour, 0>> >>

\* Line 64: adjusted_energy, e * (energy / 10), in tenths.
AdjustedEnergy(e) == [i \in 1..Len(base_energy) |-> base_energy[i] * e]

\* Line 67: unique_hours = sorted(set(key_hours)).
UniqueHours(key_hours) == SortedFloats({key_hours[i] : i \in 1..Len(key_hours)})

\* Line 68: unique_energy.
UniqueEnergy(key_hours, adjusted_energy) ==
    LET unique_hours == UniqueHours(key_hours)
    IN  [i \in 1..Len(unique_hours) |-> adjusted_energy[IndexOf(key_hours, unique_hours[i])]]

\* Line 69: hours = np.linspace(0, 24, 100), sample i being the fraction
\* <<numerator, denominator>> of 24 * i / 99.
SampleCount == 100
hours == [i \in 1..SampleCount |-> <<HoursPerDay * (i - 1), SampleCount - 1>>]

\* Line 70, bounds_error=False: interp1d gives fill_value at a sample hour
\* below the first or above the last control point.
Filled(sample, unique_hours) ==
    LET first == unique_hours[1]
        last == unique_hours[Len(unique_hours)]
        n == MinutesPerHour * sample[1]
        d == sample[2]
    IN  \/ n < d * first[1] \/ (n = d * first[1] /\ 0 < first[2])
        \/ n > d * last[1] \/ (n = d * last[1] /\ 0 > last[2])

\* Line 70: fill_value = 2 * (energy / 10), in tenths.
FillValue(e) == 2 * e

-----------------------------------------------------------------------------
(* The inputs *)

\* The minutes offered as inputs.
Minutes ==
    {m \in 0..59 : m % QuarterHour = 0 \/ m % MinuteStride = MinuteStride - 1}

\* The zero-padded spelling of a clock time, as the GUI's dropdowns build it
\* (f"{h:02d}:{m:02d}").
Padded(h, m) ==
    <<Digits[(h \div 10) + 1], Digits[(h % 10) + 1], ":",
      Digits[(m \div 10) + 1], Digits[(m % 10) + 1]>>

\* Other shapes of string a caller of the backend may pass.
OtherShapes ==
    { <<"7", ":", "0", "5">>, <<"0", "7", ":", "5">>, <<"7", ":", "5">>,
      <<"2", "4", ":", "0", "0">>, <<"0", "7", ":", "6", "0">>,
      <<"0", "7", "0", "0">>, <<"7", ":", "0", "0", "5">>, <<>> }

TimeStrings == {Padded(h, m) : h \in 0..23, m \in Minutes} \cup OtherShapes

\* Energy levels passed to calculate_circadian_rhythm.
EnergyLevels == {1, 10}

-----------------------------------------------------------------------------
(* A caller computing the debt and then the rhythm of one pair of times, as    *)
(* NeuroNapApp.log_sleep and analyze_sleep_logs do.                            *)

Init ==
    /\ pc = "debt"
    /\ sleep_time \in TimeStrings
    /\ wake_time \in TimeStrings
    /\ energy \in EnergyLevels
    /\ sleep_debt = Unset
    /\ rhythm = Unset
    /\ locals = [calculate_sleep_debt |-> Unset, calculate_circadian_rhythm |-> Unset]
    /\ chronotype = Unset /\ sleep_quality = Unset /\ tips = Unset
    /\ logs = Unset /\ analysis = Unset
    /\ ml_model = Unset /\ ml_scaler = Unset
    /\ sleep_duration = Unset /\ activity = Unset /\ stress = Unset
    /\ dataset = Unset /\ exc = Unset
    /\ users = Unset /\ sleep_logs = Unset /\ db_call = Unset /\ db_result = Unset
    /\ db_lock = Unset
    /\ user_id = Unset /\ user_name = Unset /\ last_inputs = Unset
    /\ message = Unset /\ event = Unset

\* The locals of calculate_sleep_debt when it returns.
DebtLocals(st, wt) ==
    [duration |-> SleepDebtDuration(Strptime(st), Strptime(wt))]

\* The locals of calculate_circadian_rhythm when it returns.
RhythmLocals(st, wt, e) ==
    LET duration == RhythmDuration(Strptime(st), Strptime(wt))
        midpoint_dt == MidpointDt(Strptime(st), duration)
        wake_dt == RhythmWakeDt(Strptime(st), Strptime(wt))
        key_hours == KeyHours(WakeHour(wake_dt), SleepHour(Strptime(st), wake_dt))
    IN  [duration |-> duration,
         midpoint_dt |-> midpoint_dt,
         midpoint_hour |-> MidpointHour(midpoint_dt),
         key_hours |-> key_hours,
         adjusted_energy |-> AdjustedEnergy(e),
         unique_hours |-> UniqueHours(key_hours),
         unique_energy |-> UniqueEnergy(key_hours, AdjustedEnergy(e))]

\* sleep_debt = backend.calculate_sleep_debt(sleep_time, wake_time)
CallSleepDebt ==
    /\ pc = "debt"
    /\ ~SleepDebtRaises(sleep_time, wake_time)
    /\ sleep_debt' = calculate_sleep_debt(sleep_time, wake_time)
    /\ locals' = [locals EXCEPT !.calculate_sleep_debt = DebtLocals(sleep_time, wake_time)]
    /\ pc' = "rhythm"
    /\ UNCHANGED <<timeVars, rhythm, recVars, logVars, mlVars, trainVars, dbVars, appVars>>

\* A strptime of calculate_sleep_debt raises: the exception leaves the caller.
CallSleepDebtRaises ==
    /\ pc = "debt"
    /\ SleepDebtRaises(sleep_time, wake_time)
    /\ pc' = "raised"
    /\ UNCHANGED <<timeVars, sleep_debt, rhythm, locals, recVars, logVars, mlVars, trainVars, dbVars, appVars>>

\* rhythm = backend.calculate_circadian_rhythm(sleep_time, wake_time, energy)
CallCircadianRhythm ==
    /\ pc = "rhythm"
    /\ ~CircadianRhythmRaises(sleep_time, wake_time)
    /\ rhythm' = calculate_circadian_rhythm(sleep_time, wake_time, energy)
    /\ locals' = [locals EXCEPT !.calculate_circadian_rhythm = RhythmLocals(sleep_time, wake_time, energy)]
    /\ pc' = "done"
    /\ UNCHANGED <<timeVars, sleep_debt, recVars, logVars, mlVars, trainVars, dbVars, appVars>>

Next == CallSleepDebt \/ CallSleepDebtRaises \/ CallCircadianRhythm

Spec == Init /\ [][Next]_vars

-----------------------------------------------------------------------------
(* backend.generate_recommendations *)

\* A tip is an f-string of the source: its text with {} for the one value
\* it interpolates, and that value.
Tip(text, value) == [text |-> text, value |-> value]

DebtText == "You're missing {} hours of sleep. Aim for 8+ hours tonight!"
WindDownText == "Wind down with calm music an hour before {}."
AvoidNapsText == "Avoid late naps to stick to {}."
CalmDownText == "Try a 10-minute calm-down routine before {}."
WakeUpText == "Wake Up Time ({}): Start your day here."
PeakText == "Peak Performance ({}): Tackle tough tasks now."
DipText == "Afternoon Dip ({}): Take a short break or nap."
EveningText == "Evening Boost ({}): Good for exercise or projects."
BedtimeText == "Bedtime ({}): Get to bed to reset your rhythm."

\* The debt above which the warning is given: 1 hour, in hundredths.
DebtWarningAbove == 100
\* The predicted quality below which the calm-down routine is advised.
QualityTipBelow == 6

\* Mutant of DebtTips: >= for >.
DebtTipsInclusive(debt) ==
    IF debt >= DebtWarningAbove THEN <<Tip(DebtText, debt)>> ELSE <<>>

\* Lines 125-126.
DebtTips(debt) ==
    IF debt > DebtWarningAbove THEN <<Tip(DebtText, debt)>> ELSE <<>>

\* Lines 127-130.
ChronotypeTips(ct, r) ==
    IF ct = "Night Owl" THEN <<Tip(WindDownText, r.bedtime)>>
    ELSE IF ct = "Early Bird" THEN <<Tip(AvoidNapsText, r.bedtime)>>
    ELSE <<>>

\* Lines 131-132.
QualityTips(quality, r) ==
    IF quality < QualityTipBelow THEN <<Tip(CalmDownText, r.bedtime)>> ELSE <<>>

\* Mutant of MarkerTips: the dip line is built before the peak line.
MarkerTipsDipFirst(r) ==
    << Tip(WakeUpText, r.wake_time),
       Tip(DipText, r.dip_time),
       Tip(PeakText, r.morning_peak),
       Tip(EveningText, r.evening_peak),
       Tip(BedtimeText, r.bedtime) >>

\* Lines 133-139.
MarkerTips(r) ==
    << Tip(WakeUpText, r.wake_time),
       Tip(PeakText, r.morning_peak),
       Tip(DipText, r.dip_time),
       Tip(EveningText, r.evening_peak),
       Tip(BedtimeText, r.bedtime) >>

\* The list generate_recommendations returns.
generate_recommendations(debt, ct, quality, r) ==
    DebtTips(debt) \o ChronotypeTips(ct, r) \o QualityTips(quality, r) \o MarkerTips(r)

\* Debts passed to generate_recommendations (hundredths of an hour).
DebtSamples == {0, 99, 100, 101, 200, 800}

\* Chronotype labels passed to it: the three of calculate_circadian_rhythm
\* and the "N/A" of analyze_sleep_logs.
ChronotypeLabels == {"Early Bird", "Intermediate", "Night Owl", "N/A"}

\* Predicted qualities passed to it.
QualityScores == 1..10

\* Rhythm profiles passed to it.
RhythmSamples ==
    { calculate_circadian_rhythm(Padded(23, 0), Padded(7, 0), 7),
      calculate_circadian_rhythm(<<"7", ":", "0", "5">>, Padded(18, 45), 1) }

\* A caller of generate_recommendations, as test_recommendations is.
InitRecs ==
    /\ pc = "recommend"
    /\ sleep_debt \in DebtSamples
    /\ chronotype \in ChronotypeLabels
    /\ sleep_quality \in QualityScores
    /\ rhythm \in RhythmSamples
    /\ tips = Unset
    /\ sleep_time = Unset /\ wake_time = Unset /\ energy = Unset
    /\ locals = Unset
    /\ logs = Unset /\ analysis = Unset
    /\ ml_model = Unset /\ ml_scaler = Unset
    /\ sleep_duration = Unset /\ activity = Unset /\ stress = Unset
    /\ dataset = Unset /\ exc = Unset
    /\ users = Unset /\ sleep_logs = Unset /\ db_call = Unset /\ db_result = Unset
    /\ db_lock = Unset
    /\ user_id = Unset /\ user_name = Unset /\ last_inputs = Unset
    /\ message = Unset /\ event = Unset

\* tips = backend.generate_recommendations(sleep_debt, chronotype, sleep_quality, rhythm)
CallRecommendations ==
    /\ pc = "recommend"
    /\ tips' = generate_recommendations(sleep_debt, chronotype, sleep_quality, rhythm)
    /\ pc' = "done"
    /\ UNCHANGED <<timeVars, sleep_debt, rhythm, locals, chronotype, sleep_quality,
                   logVars, mlVars, trainVars, dbVars, appVars>>

NextRecs == CallRecommendations

SpecRecs == InitRecs /\ [][NextRecs]_vars

-----------------------------------------------------------------------------
(* backend.analyze_sleep_logs *)

\* The longest sequence of logs passed to analyze_sleep_logs.
MaxLogs == 3

\* sum(xs) of a sequence of numbers.
RECURSIVE SumSeq(_)
SumSeq(xs) == IF xs = <<>> THEN 0 ELSE xs[1] + SumSeq(Tail(xs))

\* Mutant of NoLogs: the guard tests for None and lets an empty list pass.
NoLogsIsNone(ls) == FALSE

\* not logs
NoLogs(ls) == Len(ls) = 0

\* A call made in the loop raises: calculate_sleep_debt on an entry's times.
AnalyzeRaises(ls) == \E i \in 1..Len(ls) : SleepDebtRaises(ls[i][1], ls[i][2])

\* Line 100, for each entry: debt = calculate_sleep_debt(sleep_time, wake_time).
EntryDebts(ls) == [i \in 1..Len(ls) |-> calculate_sleep_debt(ls[i][1], ls[i][2])]

\* Mutant of ParsedMidpointHour: the minute of the midpoint is left out.
ParsedMidpointHourOnly(midpoint) == HourOf(Strptime(midpoint)) * MinutesPerHour

\* Lines 103-104: the hour and minute of the parsed rhythm["midpoint"] string,
\* hour + minute / 60, in minutes.
ParsedMidpointHour(midpoint) ==
    HourOf(Strptime(midpoint)) * MinutesPerHour + MinuteOf(Strptime(midpoint))

\* Mutant of EntryMidpoints: the wake time is taken for the midpoint.
EntryWakeHours(ls) ==
    [i \in 1..Len(ls) |->
        ParsedMidpointHour(calculate_circadian_rhythm(ls[i][1], ls[i][2], ls[i][3]).wake_time)]

\* Lines 102-104, for each entry.
EntryMidpoints(ls) ==
    [i \in 1..Len(ls) |->
        ParsedMidpointHour(calculate_circadian_rhythm(ls[i][1], ls[i][2], ls[i][3]).midpoint)]

\* Line 105, for each entry.
EntryEnergies(ls) == [i \in 1..Len(ls) |-> ls[i][3]]

\* Line 106: round(total_debt / len(logs), 2), in hundredths. The quotient is
\* a binary float: where the exact mean is a tie between two hundredths the
\* float lies just above or just below it, so either may be returned.
AvgDebtChoices(total_debt, n) ==
    LET q == total_debt \div n
        r == total_debt % n
    IN  IF 2 * r < n THEN {q}
        ELSE IF 2 * r > n THEN {q + 1}
        ELSE {q, q + 1}

\* Mutant of AvgChronotype: the sum of the midpoints is not divided.
AvgChronotypeOfSum(total, n) ==
    IF total < EarlyBirdBefore THEN "Early Bird"
    ELSE IF total < IntermediateBefore THEN "Intermediate"
    ELSE "Night Owl"

\* Lines 107-108: avg_midpoint = sum(midpoints) / len(midpoints), then the
\* thresholds 3.5 and 5; total is the sum of the midpoints in minutes.
AvgChronotype(total, n) ==
    IF total < EarlyBirdBefore * n THEN "Early Bird"
    ELSE IF total < IntermediateBefore * n THEN "Intermediate"
    ELSE "Night Owl"

\* Line 109: round(sum(energy_levels) / len(energy_levels), 1), in tenths.
AvgEnergy(total, n) == RoundHalfEven(10 * total, n)

\* The tuples analyze_sleep_logs may return for a non-empty list of entries
\* whose times parse.
analyze_sleep_logs(ls) ==
    LET n == Len(ls)
    IN  { <<avg_debt,
            AvgChronotype(SumSeq(EntryMidpoints(ls)), n),
            AvgEnergy(SumSeq(EntryEnergies(ls)), n)>> :
          avg_debt \in AvgDebtChoices(SumSeq(EntryDebts(ls)), n) }

\* The locals of analyze_sleep_logs after its loop.
AnalyzeLocals(ls) ==
    [total_debt |-> SumSeq(EntryDebts(ls)),
     midpoints |-> EntryMidpoints(ls),
     energy_levels |-> EntryEnergies(ls)]

\* The (sleep_time, wake_time) pairs of the log entries.
LogTimes ==
    { <<Padded(22, 0), Padded(6, 0)>>,
      <<Padded(2, 0), Padded(10, 0)>>,
      <<Padded(1, 0), Padded(5, 0)>>,
      <<Padded(23, 0), Padded(6, 59)>>,
      <<Padded(23, 0), Padded(6, 57)>>,
      <<Padded(23, 30), Padded(8, 0)>>,
      <<Padded(19, 0), Padded(3, 0)>> }

\* The energy levels of the log entries.
LogEnergies == {3, 8}

\* The log entries: tuples (sleep_time, wake_time, energy, stress, activity),
\* and one entry whose sleep time is not a time of day.
LogEntries ==
    { <<p[1], p[2], e, 5, 60>> : p \in LogTimes, e \in LogEnergies }
        \cup { <<Padded(24, 0), Padded(7, 0), 5, 5, 60>> }

\* The sequences of at most n log entries.
LogsUpTo(n) == UNION { [1..k -> LogEntries] : k \in 0..n }

\* A caller of analyze_sleep_logs.
InitLogs ==
    /\ pc = "analyze"
    /\ logs \in LogsUpTo(MaxLogs)
    /\ analysis = Unset
    /\ locals = Unset
    /\ sleep_time = Unset /\ wake_time = Unset /\ energy = Unset
    /\ sleep_debt = Unset /\ rhythm = Unset
    /\ chronotype = Unset /\ sleep_quality = Unset /\ tips = Unset
    /\ ml_model = Unset /\ ml_scaler = Unset
    /\ sleep_duration = Unset /\ activity = Unset /\ stress = Unset
    /\ dataset = Unset /\ exc = Unset
    /\ users = Unset /\ sleep_logs = Unset /\ db_call = Unset /\ db_result = Unset
    /\ db_lock = Unset
    /\ user_id = Unset /\ user_name = Unset /\ last_inputs = Unset
    /\ message = Unset /\ event = Unset

\* avg_debt, avg_chronotype, avg_energy = backend.analyze_sleep_logs(logs)
CallAnalyze ==
    /\ pc = "analyze"
    /\ IF NoLogs(logs)
       THEN /\ analysis' = <<0, "N/A", 0>>
            /\ pc' = "done"
            /\ UNCHANGED locals
       ELSE IF AnalyzeRaises(logs) \/ Len(logs) = 0
       THEN \* ValueError from strptime, or ZeroDivisionError at line 106
            /\ pc' = "raised"
            /\ UNCHANGED <<analysis, locals>>
       ELSE /\ analysis' \in analyze_sleep_logs(logs)
            /\ locals' = AnalyzeLocals(logs)
            /\ pc' = "done"
    /\ UNCHANGED <<timeVars, sleep_debt, rhythm, recVars, logs, mlVars, trainVars, dbVars, appVars>>

NextLogs == CallAnalyze

SpecLogs == InitLogs /\ [][NextLogs]_vars

-----------------------------------------------------------------------------
(* ml.predict_sleep_quality *)

\* Python's None.
None == "None"

\* The quality returned when no model is available.
DefaultQuality == 6

\* The labels a fitted classifier predicts: the qualities test_ml_prediction
\* accepts, range(4, 10).
LowestLabel == 4
HighestLabel == 9
QualityLabels == LowestLabel..HighestLabel

\* Mutant of Untrained: and for or.
UntrainedBoth(model, scaler) == model = None /\ scaler = None

\* Line 46: model is None or scaler is None.
Untrained(model, scaler) == model = None \/ scaler = None

\* The values predict_sleep_quality may return: the default, or the label
\* the classifier predicts for the scaled features.
predict_sleep_quality(model, scaler, duration, activity_level, stress_level) ==
    IF Untrained(model, scaler) THEN {DefaultQuality} ELSE QualityLabels

\* The arguments of the calls.
Models == {None, "RandomForestClassifier"}
Scalers == {None, "StandardScaler"}
SleepDurations == {0, 400, 750, 800}
ActivityLevels == {0, 60, 600}
StressLevels == 1..10

\* A caller of predict_sleep_quality, as test_ml_prediction is.
InitPredict ==
    /\ pc = "predict"
    /\ ml_model \in Models
    /\ ml_scaler \in Scalers
    /\ sleep_duration \in SleepDurations
    /\ activity \in ActivityLevels
    /\ stress \in StressLevels
    /\ sleep_quality = Unset
    /\ sleep_time = Unset /\ wake_time = Unset /\ energy = Unset
    /\ sleep_debt = Unset /\ rhythm = Unset /\ locals = Unset
    /\ chronotype = Unset /\ tips = Unset
    /\ logs = Unset /\ analysis = Unset
    /\ dataset = Unset /\ exc = Unset
    /\ users = Unset /\ sleep_logs = Unset /\ db_call = Unset /\ db_result = Unset
    /\ db_lock = Unset
    /\ user_id = Unset /\ user_name = Unset /\ last_inputs = Unset
    /\ message = Unset /\ event = Unset

\* sleep_quality = ml.predict_sleep_quality(ml_model, ml_scaler, duration, activity, stress)
CallPredict ==
    /\ pc = "predict"
    /\ sleep_quality' \in
          predict_sleep_quality(ml_model, ml_scaler, sleep_duration, activity, stress)
    /\ pc' = "done"
    /\ UNCHANGED <<timeVars, sleep_debt, rhythm, locals, chronotype, tips, logVars, mlVars, trainVars, dbVars, appVars>>

NextPredict == CallPredict

SpecPredict == InitPredict /\ [][NextPredict]_vars

-----------------------------------------------------------------------------
(* ml.train_model *)

\* The columns train_model selects as features, and the target column.
FeatureColumns ==
    {"Sleep Duration", "Physical Activity Level", "Stress Level", "Heart Rate", "Daily Steps"}
TargetColumn == "Quality of Sleep"

\* The exception classes that derive from Exception, among those the calls
\* of train_model raise.
ExceptionClasses ==
    {"FileNotFoundError", "PermissionError", "EmptyDataError", "ParserError",
     "KeyError", "ValueError"}

\* pd.read_csv(path): the exception it raises on the file, or None.
ReadCsvError(ds) ==
    IF ds.file = "missing" THEN "FileNotFoundError"
    ELSE IF ds.file = "unreadable" THEN "PermissionError"
    ELSE IF ds.file = "empty" THEN "EmptyDataError"
    ELSE IF ds.file = "malformed" THEN "ParserError"
    ELSE None

\* data[[...five columns...]] and data["Quality of Sleep"]: KeyError when a
\* column is not in the frame.
SelectError(ds) ==
    IF FeatureColumns \subseteq ds.columns /\ TargetColumn \in ds.columns
    THEN None ELSE "KeyError"

\* scaler.fit_transform(X): ValueError on a cell that is no number, and on a
\* frame without rows.
ScaleError(ds) == IF ds.cells = "numeric" THEN None ELSE "ValueError"

\* model.fit(X_scaled, y): ValueError on a target with missing values.
FitError(ds) == IF ds.target = "labels" THEN None ELSE "ValueError"

\* Mutant of Handled: only the first except clause is there.
HandledFileNotFoundOnly(e) == e = "FileNotFoundError"

\* The two except clauses: except FileNotFoundError, except Exception.
Handled(e) == e = "FileNotFoundError" \/ e \in ExceptionClasses

\* The dataset files: no file, a file that cannot be opened, an empty file,
\* a file that is no CSV, or a CSV with some of the columns, whose cells are
\* numbers, text or absent (no rows) and whose target has labels or gaps.
Datasets ==
    { [file |-> f, columns |-> {}, cells |-> "none", target |-> "none"] :
        f \in {"missing", "unreadable", "empty", "malformed"} }
    \cup
    { [file |-> "present", columns |-> c, cells |-> x, target |-> t] :
        c \in SUBSET (FeatureColumns \cup {TargetColumn}),
        x \in {"numeric", "text", "no rows"},
        t \in {"labels", "gaps"} }

\* A caller of train_model, as NeuroNapApp.__init__ and test_ml_prediction are.
InitTrain ==
    /\ pc = "read_csv"
    /\ dataset \in Datasets
    /\ exc = None
    /\ locals = [X |-> Unset, scaler |-> Unset, model |-> Unset]
    /\ ml_model = Unset /\ ml_scaler = Unset
    /\ sleep_time = Unset /\ wake_time = Unset /\ energy = Unset
    /\ sleep_debt = Unset /\ rhythm = Unset
    /\ chronotype = Unset /\ sleep_quality = Unset /\ tips = Unset
    /\ logs = Unset /\ analysis = Unset
    /\ sleep_duration = Unset /\ activity = Unset /\ stress = Unset
    /\ users = Unset /\ sleep_logs = Unset /\ db_call = Unset /\ db_result = Unset
    /\ db_lock = Unset
    /\ user_id = Unset /\ user_name = Unset /\ last_inputs = Unset
    /\ message = Unset /\ event = Unset

\* What a step of the try block leaves unchanged.
TrainFrame ==
    UNCHANGED <<timeVars, sleep_debt, rhythm, recVars, logVars, dataset, dbVars, appVars,
                sleep_duration, activity, stress>>

\* Line 17: data = pd.read_csv(...)
TrainReadCsv ==
    /\ pc = "read_csv"
    /\ IF ReadCsvError(dataset) /= None
       THEN exc' = ReadCsvError(dataset) /\ pc' = "except"
       ELSE exc' = exc /\ pc' = "select"
    /\ UNCHANGED <<locals, ml_model, ml_scaler>>
    /\ TrainFrame

\* Lines 19-20: X = data[[...]], y = data["Quality of Sleep"]
TrainSelect ==
    /\ pc = "select"
    /\ IF SelectError(dataset) /= None
       THEN exc' = SelectError(dataset) /\ pc' = "except" /\ UNCHANGED locals
       ELSE exc' = exc /\ pc' = "scale" /\ locals' = [locals EXCEPT !.X = dataset.cells]
    /\ UNCHANGED <<ml_model, ml_scaler>>
    /\ TrainFrame

\* Lines 21-22: scaler = StandardScaler(); X_scaled = scaler.fit_transform(X)
TrainScale ==
    /\ pc = "scale"
    /\ IF ScaleError(dataset) /= None
       THEN exc' = ScaleError(dataset) /\ pc' = "except" /\ UNCHANGED locals
       ELSE exc' = exc /\ pc' = "fit" /\ locals' = [locals EXCEPT !.scaler = "StandardScaler"]
    /\ UNCHANGED <<ml_model, ml_scaler>>
    /\ TrainFrame

\* Lines 23-24: model = RandomForestClassifier(...); model.fit(X_scaled, y)
TrainFit ==
    /\ pc = "fit"
    /\ IF FitError(dataset) /= None
       THEN exc' = FitError(dataset) /\ pc' = "except" /\ UNCHANGED locals
       ELSE exc' = exc /\ pc' = "return"
            /\ locals' = [locals EXCEPT !.model = "RandomForestClassifier"]
    /\ UNCHANGED <<ml_model, ml_scaler>>
    /\ TrainFrame

\* Line 25: return model, scaler; the caller stores the pair.
TrainReturn ==
    /\ pc = "return"
    /\ ml_model' = locals.model
    /\ ml_scaler' = locals.scaler
    /\ pc' = "returned"
    /\ UNCHANGED <<locals, exc>>
    /\ TrainFrame

\* Lines 26-31: the except clauses return None, None; an exception neither
\* clause names leaves train_model.
TrainExcept ==
    /\ pc = "except"
    /\ IF Handled(exc)
       THEN ml_model' = None /\ ml_scaler' = None /\ pc' = "returned"
       ELSE pc' = "raised" /\ UNCHANGED <<ml_model, ml_scaler>>
    /\ UNCHANGED <<locals, exc>>
    /\ TrainFrame

NextTrain ==
    TrainReadCsv \/ TrainSelect \/ TrainScale \/ TrainFit \/ TrainReturn \/ TrainExcept

SpecTrain == InitTrain /\ [][NextTrain]_vars

-----------------------------------------------------------------------------
(* database.py *)

\* Python's None where a user id is expected: sqlite's row ids start at 1.
NoUser == 0
\* Python's None where a row (a tuple) is expected, and where a function
\* returns nothing.
NoRow == <<>>

\* The most rows the model lets table sleep_logs hold.
MaxStoredLogs == 2

\* The range the CHECK constraints of sleep_logs give energy_level and
\* stress_level, and the least activity_level.
LeastLevel == 1
GreatestLevel == 10
LeastActivity == 0

\* hashlib.sha256(password.encode()).hexdigest(): a digest, not the password;
\* different passwords have different digests.
Sha256(password) == <<"sha256", password>>

\* A row of users has the email: the INSERT then fails on UNIQUE.
EmailTaken(tbl, email) == \E i \in 1..Len(tbl) : tbl[i].email = email

\* register_user: what the table is afterwards, the exception raised if any,
\* and the value returned. With the write lock held by another connection
\* the INSERT raises OperationalError (database is locked), which the function
\* does not catch; a NULL name or email and a taken email raise
\* IntegrityError, for which it returns None; else the row is added with the
\* next row id.
register_user(tbl, lock, name, email, password, age) ==
    LET hashed_pw == Sha256(password)
        id == Len(tbl) + 1
    IN  IF lock
        THEN [users |-> tbl, raises |-> "OperationalError", returns |-> NoUser]
        ELSE IF name = None \/ email = None \/ EmailTaken(tbl, email)
        THEN [users |-> tbl, raises |-> None, returns |-> NoUser]
        ELSE [users |-> Append(tbl, [user_id |-> id, name |-> name, email |-> email,
                                     password |-> hashed_pw, age |-> age]),
              raises |-> None, returns |-> id]

\* Mutant of Matches: the password is left out of the WHERE clause.
MatchesEmailOnly(row, email, hashed_pw) == row.email = email

\* WHERE email = ? AND password = ?
Matches(row, email, hashed_pw) == row.email = email /\ row.password = hashed_pw

\* login_user: (user_id, name) of the first row that matches, or None.
login_user(tbl, email, password) ==
    LET hashed_pw == Sha256(password)
        hits == {i \in 1..Len(tbl) : Matches(tbl[i], email, hashed_pw)}
    IN  IF hits = {} THEN NoRow
        ELSE LET i == CHOOSE i \in hits : \A j \in hits : i <= j
             IN  <<tbl[i].user_id, tbl[i].name>>

\* A CHECK constraint of sleep_logs fails on the values.
CheckFails(energy_level, stress_level, activity_level) ==
    \/ energy_level < LeastLevel \/ energy_level > GreatestLevel
    \/ stress_level < LeastLevel \/ stress_level > GreatestLevel
    \/ activity_level < LeastActivity

\* log_sleep: the table afterwards, the exception raised if any, and whether
\* the connection is left open holding the write lock. The function closes
\* its connection only on the path without exception: when the INSERT fails
\* on a CHECK the transaction it began stays open, with its lock, until the
\* connection object is freed.
log_sleep(tbl, lock, uid, st, wt, energy_level, stress_level, activity_level) ==
    IF lock
    THEN [sleep_logs |-> tbl, raises |-> "OperationalError", lock |-> lock]
    ELSE IF CheckFails(energy_level, stress_level, activity_level)
    THEN [sleep_logs |-> tbl, raises |-> "IntegrityError", lock |-> TRUE]
    ELSE [sleep_logs |-> Append(tbl, [user_id |-> uid,
                 entry |-> <<st, wt, energy_level, stress_level, activity_level>>]),
          raises |-> None, lock |-> lock]

\* The arguments of the calls.
Names == {"Ann", "Bob", None}
Emails == {"ann@example.com", "bob@example.com"}
Passwords == {"pass123", "hunter2"}
Ages == {25}
StoredEnergies == {0, 5}

\* A caller of the database functions, as test_database_user_registration is:
\* init_db has run on a new file.
InitDb ==
    /\ pc = "storage"
    /\ users = <<>>
    /\ sleep_logs = <<>>
    /\ db_lock = FALSE
    /\ db_call = <<"init_db">>
    /\ db_result = [raises |-> None, returns |-> NoRow]
    /\ sleep_time = Unset /\ wake_time = Unset /\ energy = Unset
    /\ sleep_debt = Unset /\ rhythm = Unset /\ locals = Unset
    /\ chronotype = Unset /\ sleep_quality = Unset /\ tips = Unset
    /\ logs = Unset /\ analysis = Unset
    /\ ml_model = Unset /\ ml_scaler = Unset
    /\ sleep_duration = Unset /\ activity = Unset /\ stress = Unset
    /\ dataset = Unset /\ exc = Unset
    /\ user_id = Unset /\ user_name = Unset /\ last_inputs = Unset
    /\ message = Unset /\ event = Unset

\* What a database call leaves unchanged.
DbFrame ==
    UNCHANGED <<pc, timeVars, sleep_debt, rhythm, locals, recVars, logVars, mlVars,
                trainVars, appVars>>

\* database.register_user(name, email, password, age)
CallRegisterUser ==
    \E name \in Names, email \in Emails, password \in Passwords, age \in Ages :
        LET r == register_user(users, db_lock, name, email, password, age)
        IN  /\ users' = r.users
            /\ db_call' = <<"register_user", name, email, password, age>>
            /\ db_result' = [raises |-> r.raises, returns |-> r.returns]
            /\ UNCHANGED <<sleep_logs, db_lock>>
            /\ DbFrame

\* database.login_user(email, password)
CallLoginUser ==
    \E email \in Emails, password \in Passwords :
        /\ db_call' = <<"login_user", email, password>>
        /\ db_result' = [raises |-> None, returns |-> login_user(users, email, password)]
        /\ UNCHANGED <<users, sleep_logs, db_lock>>
        /\ DbFrame

\* database.log_sleep(user_id, sleep_time, wake_time, energy, stress, activity)
CallLogSleep ==
    \E uid \in 1..2, e \in StoredEnergies :
        LET r == log_sleep(sleep_logs, db_lock, uid, Padded(23, 0), Padded(7, 0), e, 5, 60)
        IN  /\ Len(sleep_logs) < MaxStoredLogs
            /\ sleep_logs' = r.sleep_logs
            /\ db_lock' = r.lock
            /\ db_call' = <<"log_sleep", uid, e>>
            /\ db_result' = [raises |-> r.raises, returns |-> NoRow]
            /\ UNCHANGED users
            /\ DbFrame

\* The connection log_sleep left open is freed by the garbage collector, which
\* closes it: its transaction is rolled back and the lock released.
CloseLeakedConnection ==
    /\ db_lock = TRUE
    /\ db_lock' = FALSE
    /\ db_call' = <<"Connection.close">>
    /\ db_result' = [raises |-> None, returns |-> NoRow]
    /\ UNCHANGED <<users, sleep_logs>>
    /\ DbFrame

NextDb == CallRegisterUser \/ CallLoginUser \/ CallLogSleep \/ CloseLeakedConnection

SpecDb == InitDb /\ [][NextDb]_vars

-----------------------------------------------------------------------------
(* gui.py: NeuroNapApp *)

\* database.get_user_sleep_logs(user_id): the entries of the user's rows of
\* sleep_logs, in the order they were stored.
get_user_sleep_logs(tbl, uid) ==
    LET rows == SelectSeq(tbl, LAMBDA r : r.user_id = uid)
    IN  [i \in 1..Len(rows) |-> rows[i].entry]

\* int(text) raises ValueError: text is not an optional minus sign followed
\* by digits.
IntRaises(text) ==
    LET ds == IF Len(text) >= 1 /\ text[1] = "-" THEN Tail(text) ELSE text
    IN  Len(ds) = 0 \/ \E i \in 1..Len(ds) : ~IsDigit(ds[i])

\* int(text) when it does not raise.
RECURSIVE IntOfDigits(_)
IntOfDigits(ds) ==
    IF Len(ds) = 0 THEN 0
    ELSE 10 * IntOfDigits(SubSeq(ds, 1, Len(ds) - 1)) + DigitVal(ds[Len(ds)])
IntOf(text) == IF text[1] = "-" THEN 0 - IntOfDigits(Tail(text)) ELSE IntOfDigits(text)

\* The bounds of the range test of log_sleep: 0 <= energy <= 10, 0 <= stress
\* <= 10, activity >= 0.
GuiLeast == 0
GuiGreatest == 10

\* The text of the ValueError of line 373.
RangeText == "Energy and Stress must be 1-10, Activity must be non-negative."

\* The ValueError raised inside the try block of log_sleep before anything
\* is stored, as the text of the error box, or None.
LogSleepError(st, wt, e, s, activity_text) ==
    IF st = <<>> \/ wt = <<>> THEN "Please select sleep and wake times."
    ELSE IF activity_text /= <<>> /\ IntRaises(activity_text)
    THEN "invalid literal for int() with base 10"
    ELSE LET a == IF activity_text /= <<>> THEN IntOf(activity_text) ELSE 0
         IN  IF ~(GuiLeast <= e /\ e <= GuiGreatest /\ GuiLeast <= s /\ s <= GuiGreatest
                  /\ a >= 0)
             THEN RangeText
             ELSE IF StrptimeRaises(st) \/ StrptimeRaises(wt)
             THEN "time data does not match format '%H:%M'"
             ELSE None

\* Mutant of TrainModelReturned: __init__ goes on without the call of line 27.
TrainModelSkipped(p) == p \in {"read_csv", "returned"}

\* Line 27 of __init__: the statements after it run when ml.train_model has
\* returned the pair.
TrainModelReturned(p) == p = "returned"

\* run_app: root.mainloop() is entered when NeuroNapApp(root) has returned;
\* the callbacks run from it, with one of the three frames shown.
MainloopRunning(p) == p \in {"auth", "log", "result"}

\* The most rows of sleep_logs the application is followed to.
MaxAppLogs == 1

\* What the forms hold when a button is pressed.
AppDatasets ==
    { d \in Datasets :
        \/ d.file = "missing"
        \/ /\ d.file = "present"
           /\ d.columns = FeatureColumns \cup {TargetColumn}
           /\ d.cells = "numeric"
           /\ d.target = "labels" }
RegisterForms ==
    { <<"Ann", "ann@example.com", "pass123">>, <<"Bob", "bob@example.com", "hunter2">> }
AgeTexts == { <<"2", "5">>, <<"a", "b", "c">> }
\* The log form: (sleep time, wake time, energy, stress, activity text). The
\* combo boxes hold a time of self.times or nothing; the sliders offer 1..10,
\* and energy_var and stress_var may be set to any integer.
AppSubmissions ==
    { <<Padded(23, 0), Padded(7, 0), 7, 5, <<>> >>,
      <<Padded(1, 15), Padded(5, 0), 7, 5, <<"6", "0">> >>,
      <<Padded(22, 45), Padded(7, 15), 7, 5, <<"6", "0">> >>,
      <<<<>>, Padded(7, 0), 7, 5, <<"6", "0">> >>,
      <<Padded(23, 0), Padded(7, 0), 0, 5, <<"6", "0">> >>,
      <<Padded(23, 0), Padded(7, 0), 11, 5, <<"6", "0">> >>,
      <<Padded(23, 0), Padded(7, 0), 7, 0, <<"6", "0">> >>,
      <<Padded(23, 0), Padded(7, 0), 7, 11, <<"6", "0">> >>,
      <<Padded(23, 0), Padded(7, 0), 7, 5, <<"-", "5">> >>,
      <<Padded(23, 0), Padded(7, 0), 7, 5, <<"a", "b">> >> }

\* self.last_inputs as __init__ sets it.
DefaultInputs ==
    [sleep_time |-> Padded(23, 0), wake_time |-> Padded(7, 0),
     energy |-> 7, stress |-> 5, activity |-> 60]

\* run_app: NeuroNapApp.__init__ has run up to the call of ml.train_model
\* (lines 21-26); neuronap.db holds no rows.
InitApp ==
    /\ pc = "read_csv"
    /\ dataset \in AppDatasets
    /\ exc = None
    /\ locals = [X |-> Unset, scaler |-> Unset, model |-> Unset]
    /\ ml_model = Unset /\ ml_scaler = Unset
    /\ user_id = NoUser /\ user_name = None
    /\ last_inputs = Unset
    /\ message = <<>>
    /\ event = <<"__init__", "train_model">>
    /\ users = <<>> /\ sleep_logs = <<>> /\ db_lock = FALSE
    /\ db_call = Unset /\ db_result = Unset
    /\ sleep_time = Unset /\ wake_time = Unset /\ energy = Unset
    /\ sleep_debt = Unset /\ rhythm = Unset
    /\ chronotype = Unset /\ sleep_quality = Unset /\ tips = Unset
    /\ logs = Unset /\ analysis = Unset
    /\ sleep_duration = Unset /\ activity = Unset /\ stress = Unset

\* The report the result frame shows, with the arguments of the calls that
\* made it; Unset while no report is shown.
reportVars == <<sleep_time, wake_time, energy, stress, activity, sleep_debt,
                sleep_duration, rhythm, chronotype, sleep_quality, tips, logs, analysis>>

\* Lines 27-53, after train_model has returned: init_db creates the tables
\* if they are not there, the default inputs are set, the auth frame shown.
FinishInit ==
    /\ TrainModelReturned(pc)
    /\ pc' = "auth"
    /\ last_inputs' = DefaultInputs
    /\ locals' = Unset
    /\ event' = <<"__init__", "auth frame shown">>
    /\ db_call' = <<"init_db">>
    /\ db_result' = [raises |-> None, returns |-> NoRow]
    /\ UNCHANGED <<reportVars, ml_model, ml_scaler, trainVars, users,
                   sleep_logs, db_lock, user_id, user_name, message>>

\* NeuroNapApp.login, the Login button of the auth frame.
Login ==
    /\ MainloopRunning(pc)
    /\ pc = "auth"
    /\ \E email \in Emails, password \in Passwords :
        LET result == login_user(users, email, password)
            stored == get_user_sleep_logs(sleep_logs, result[1])
        IN  IF result /= NoRow
            THEN /\ user_id' = result[1]
                 /\ user_name' = result[2]
                 /\ last_inputs' =
                       IF Len(stored) > 0
                       THEN LET last_log == stored[Len(stored)]
                            IN  [sleep_time |-> last_log[1], wake_time |-> last_log[2],
                                 energy |-> last_log[3], stress |-> last_log[4],
                                 activity |-> last_log[5]]
                       ELSE last_inputs
                 /\ message' = <<"showinfo", "Welcome back">>
                 /\ event' = <<"login", "logged in">>
                 /\ pc' = "log"
            ELSE /\ message' = <<"showerror", "Invalid email or password.">>
                 /\ event' = <<"login", "refused">>
                 /\ UNCHANGED <<pc, user_id, user_name, last_inputs>>
    /\ UNCHANGED <<reportVars, locals, ml_model, ml_scaler, trainVars, dbVars>>

\* NeuroNapApp.register, the Register button of the auth frame. An exception
\* of register_user other than ValueError leaves the callback: no box is shown.
Register ==
    /\ MainloopRunning(pc)
    /\ pc = "auth"
    /\ \E form \in RegisterForms, age_text \in AgeTexts :
        IF IntRaises(age_text)
        THEN /\ message' = <<"showerror", "Age must be a number.">>
             /\ event' = <<"register", "error shown">>
             /\ UNCHANGED <<pc, user_id, user_name, users>>
        ELSE LET r == register_user(users, db_lock, form[1], form[2], form[3],
                                    IntOf(age_text))
             IN  IF r.raises /= None
                 THEN /\ event' = <<"register", r.raises>>
                      /\ message' = <<>>
                      /\ UNCHANGED <<pc, user_id, user_name, users>>
                 ELSE IF r.returns /= NoUser
                 THEN /\ users' = r.users
                      /\ user_id' = r.returns
                      /\ user_name' = form[1]
                      /\ message' = <<"showinfo", "Registered">>
                      /\ event' = <<"register", "registered">>
                      /\ pc' = "log"
                 ELSE /\ message' = <<"showerror", "Email already taken.">>
                      /\ event' = <<"register", "error shown">>
                      /\ UNCHANGED <<pc, user_id, user_name, users>>
    /\ UNCHANGED <<reportVars, locals, ml_model, ml_scaler, trainVars,
                   sleep_logs, db_call, db_result, db_lock, last_inputs>>

\* Line 390: duration = 8 - sleep_debt if sleep_debt <= 8 else 0, in
\* hundredths of an hour.
DurationTarget == 8

\* Mutant of Duration: the fallback 0 is taken from a debt of half the target.
DurationFallbackEarly(debt) ==
    IF 2 * debt <= 100 * DurationTarget THEN 100 * DurationTarget - debt ELSE 0

Duration(debt) ==
    IF debt <= 100 * DurationTarget THEN 100 * DurationTarget - debt ELSE 0

\* NeuroNapApp.log_sleep, the Submit button of the log frame and the Return
\* key once the log frame has been shown (bind_all, line 198). A ValueError
\* raised in the try block is shown in an error box; any other exception
\* leaves the callback, and Tk goes on with the next event. The report of an
\* earlier submission stays on the result frame when the callback fails.
LogSleep ==
    /\ MainloopRunning(pc)
    /\ user_id /= NoUser
    /\ \E form \in AppSubmissions :
        LET st == form[1]
            wt == form[2]
            e == form[3]
            s == form[4]
            activity_text == form[5]
            err == LogSleepError(st, wt, e, s, activity_text)
            a == IF activity_text /= <<>> THEN IntOf(activity_text) ELSE 0
            r == log_sleep(sleep_logs, db_lock, user_id, st, wt, e, s, a)
            stored == get_user_sleep_logs(r.sleep_logs, user_id)
            debt == calculate_sleep_debt(st, wt)
            duration == Duration(debt)
            rh == calculate_circadian_rhythm(st, wt, e)
        IN  IF err /= None
            THEN /\ message' = <<"showerror", err>>
                 /\ event' = <<"log_sleep", "error shown", form>>
                 /\ UNCHANGED <<pc, reportVars, last_inputs, sleep_logs, db_lock>>
            ELSE /\ last_inputs' = [sleep_time |-> st, wake_time |-> wt, energy |-> e,
                                    stress |-> s, activity |-> a]
                 /\ db_lock' = r.lock
                 /\ message' = <<>>
                 /\ IF r.raises /= None
                    THEN /\ event' = <<"log_sleep", r.raises, form>>
                         /\ UNCHANGED <<pc, reportVars, sleep_logs>>
                    ELSE /\ Len(sleep_logs) < MaxAppLogs
                         /\ sleep_logs' = r.sleep_logs
                         /\ sleep_time' = st /\ wake_time' = wt /\ energy' = e
                         /\ sleep_debt' = debt
                         /\ sleep_duration' = duration
                         /\ activity' = a /\ stress' = s
                         /\ rhythm' = rh
                         /\ chronotype' = rh.chronotype
                         /\ \E q \in predict_sleep_quality(ml_model, ml_scaler,
                                                           duration, a, s) :
                             /\ sleep_quality' = q
                             /\ tips' = generate_recommendations(debt, rh.chronotype, q, rh)
                         /\ logs' = stored
                         /\ analysis' \in analyze_sleep_logs(stored)
                         /\ event' = <<"log_sleep", "report shown", form>>
                         /\ pc' = "result"
    /\ UNCHANGED <<locals, ml_model, ml_scaler, trainVars, users, db_call, db_result,
                   user_id, user_name>>

\* What a button of the log and result frames leaves unchanged.
AppFrame ==
    UNCHANGED <<locals, ml_model, ml_scaler, trainVars, dbVars, user_id, user_name,
                last_inputs>>

\* The Back button of the log frame: show_auth_frame.
Back ==
    /\ MainloopRunning(pc)
    /\ pc = "log"
    /\ pc' = "auth"
    /\ event' = <<"show_auth_frame", "auth frame shown">>
    /\ message' = <<>>
    /\ UNCHANGED reportVars
    /\ AppFrame

\* The Log Another button of the result frame: show_log_frame; clear_frames
\* takes the report off the window.
LogAnother ==
    /\ MainloopRunning(pc)
    /\ pc = "result"
    /\ pc' = "log"
    /\ event' = <<"show_log_frame", "log frame shown">>
    /\ message' = <<>>
    /\ sleep_time' = Unset /\ wake_time' = Unset /\ energy' = Unset
    /\ stress' = Unset /\ activity' = Unset /\ sleep_debt' = Unset
    /\ sleep_duration' = Unset /\ rhythm' = Unset /\ chronotype' = Unset
    /\ sleep_quality' = Unset /\ tips' = Unset /\ logs' = Unset /\ analysis' = Unset
    /\ AppFrame

\* The Save Report button of the result frame: save_report writes the PDF
\* and shows a box; it assigns no attribute of the application.
SaveReport ==
    /\ MainloopRunning(pc)
    /\ pc = "result"
    /\ message' = <<"showinfo", "Report saved">>
    /\ event' = <<"save_report", "saved">>
    /\ UNCHANGED <<pc, reportVars>>
    /\ AppFrame

NextApp ==
    \/ TrainReadCsv \/ TrainSelect \/ TrainScale \/ TrainFit \/ TrainReturn \/ TrainExcept
    \/ FinishInit
    \/ Login \/ Register \/ LogSleep \/ Back \/ LogAnother \/ SaveReport
    \/ CloseLeakedConnection

SpecApp == InitApp /\ [][NextApp]_vars

-----------------------------------------------------------------------------
(* What the properties speak of: clock times, stated without the parser *)

\* The ways of writing a number below 100 that a clock string may use: two
\* digits, or one digit when the number is below 10.
Spellings(n) ==
    {<<Digits[(n \div 10) + 1], Digits[(n % 10) + 1]>>}
        \cup (IF n < 10 THEN {<<Digits[n + 1]>>} ELSE {})

\* The positions of a colon in s.
Colons(s) == {i \in 1..Len(s) : s[i] = ":"}

\* s writes the clock time h:m.
Writes(s, h, m) ==
    \E i \in Colons(s) :
        /\ SubSeq(s, 1, i - 1) \in Spellings(h)
        /\ SubSeq(s, i + 1, Len(s)) \in Spellings(m)

\* The clock times (minute of the day) that the input strings write: a string
\* that writes no time of the 24-hour day is not in the domain.
ClockTable ==
    LET written(s) == {c \in (0..23) \X (0..59) : Writes(s, c[1], c[2])}
        inputs == TimeStrings \cup {e[1] : e \in LogEntries} \cup {e[2] : e \in LogEntries}
        valid == {s \in inputs : written(s) /= {}}
    IN  [s \in valid |->
            LET c == CHOOSE c \in written(s) : TRUE IN 60 * c[1] + c[2]]

\* s writes a clock time of the 24-hour day.
ValidTime(s) == s \in DOMAIN ClockTable

\* The minute of the day that a valid s writes.
ClockMinutes(s) == ClockTable[s]

ValidPair == ValidTime(sleep_time) /\ ValidTime(wake_time)

\* The sleep duration in minutes: (wake - sleep) modulo 24 h.
ClockDuration == (ClockMinutes(wake_time) - ClockMinutes(sleep_time)) % 1440

\* The zero-padded string of minute-of-day n taken modulo 24 h.
ClockString(n) == Padded((n % 1440) \div 60, n % 60)

DebtReturned == pc \in {"rhythm", "done"}
RhythmReturned == pc = "done"

-----------------------------------------------------------------------------
(* C1 *)

\* C1: for every valid pair of clock times calculate_sleep_debt returns, and
\* the value is max(8 - d, 0) rounded to 2 decimals, d = (wake - sleep) mod
\* 24 h in hours: it is the hundredth nearest to the shortfall, it lies in
\* [0, 8], and it is 0 whenever d >= 8 h.
C1_SleepDebt ==
    ValidPair =>
        /\ pc /= "raised"
        /\ DebtReturned =>
            LET d == ClockDuration
                short == IF 480 - d > 0 THEN 480 - d ELSE 0
                diff == 60 * sleep_debt - 100 * short
            IN  /\ sleep_debt \in 0..800
                /\ diff \in -30..30
                /\ d >= 480 => sleep_debt = 0

\* An overnight sleep one minute short of 8 hours: the debt 1/60 h is
\* returned as 0.02.
C1_Witness ==
    /\ DebtReturned
    /\ sleep_time = Padded(23, 0)
    /\ wake_time = Padded(6, 59)
    /\ sleep_debt = 2

-----------------------------------------------------------------------------
(* C2 *)

\* C2 as stated: the duration both functions use lies in (0, 24] hours, and
\* is 24 h when the wake time equals the sleep time.
C2_AsStated ==
    (ValidPair /\ RhythmReturned) =>
        /\ locals.calculate_sleep_debt.duration \in 1..SecondsPerDay
        /\ locals.calculate_circadian_rhythm.duration \in 1..SecondsPerDay
        /\ ClockMinutes(wake_time) = ClockMinutes(sleep_time) =>
            /\ locals.calculate_sleep_debt.duration = SecondsPerDay
            /\ locals.calculate_circadian_rhythm.duration = SecondsPerDay

\* C2, amended: for every valid pair of clock times the duration used by
\* calculate_sleep_debt and by calculate_circadian_rhythm is the same, it is
\* (wake - sleep) mod 24 h and so lies in [0, 24) hours; when the wake time
\* equals the sleep time it is 0, not 24 h.
C2_Duration ==
    (ValidPair /\ RhythmReturned) =>
        /\ locals.calculate_sleep_debt.duration = 60 * ClockDuration
        /\ locals.calculate_circadian_rhythm.duration = locals.calculate_sleep_debt.duration
        /\ locals.calculate_sleep_debt.duration \in 0..(SecondsPerDay - 1)
        /\ ClockMinutes(wake_time) = ClockMinutes(sleep_time) =>
            locals.calculate_sleep_debt.duration = 0

\* Wake time and sleep time are the same clock time, and both calls returned.
C2_Witness ==
    /\ RhythmReturned
    /\ sleep_time = Padded(7, 0)
    /\ wake_time = Padded(7, 0)
    /\ locals.calculate_sleep_debt.duration = 0
    /\ locals.calculate_circadian_rhythm.duration = 0
    /\ sleep_debt = 800

-----------------------------------------------------------------------------
(* C3 *)

\* The midpoint of the sleep on the 24-hour wheel, in seconds of the day.
ClockMidpoint ==
    (60 * ClockMinutes(sleep_time) + (60 * ClockDuration) \div 2) % SecondsPerDay

\* C3: for every valid pair of clock times and every energy value the
\* midpoint is sleep + duration/2 on the 24 h wheel, and the chronotype is
\* Early Bird if the midpoint is before 3.5 h, Intermediate if it is at or
\* after 3.5 h and before 5 h, Night Owl otherwise: it is decided by the
\* midpoint alone (22:00-06:00 gives Early Bird, 02:00-10:00 Night Owl).
C3_Chronotype ==
    (ValidPair /\ RhythmReturned) =>
        /\ rhythm.midpoint = ClockString(ClockMidpoint \div 60)
        /\ rhythm.chronotype =
              (IF 2 * ClockMidpoint < 7 * SecondsPerHour THEN "Early Bird"
               ELSE IF ClockMidpoint < 5 * SecondsPerHour THEN "Intermediate"
               ELSE "Night Owl")
        /\ (sleep_time = Padded(22, 0) /\ wake_time = Padded(6, 0))
              => rhythm.chronotype = "Early Bird"
        /\ (sleep_time = Padded(2, 0) /\ wake_time = Padded(10, 0))
              => rhythm.chronotype = "Night Owl"

\* A midpoint of 03:29:30, half a minute before the first threshold, with
\* the higher energy value.
C3_Witness ==
    /\ RhythmReturned
    /\ sleep_time = Padded(0, 59)
    /\ wake_time = Padded(6, 0)
    /\ energy = 10
    /\ locals.calculate_circadian_rhythm.midpoint_hour = 209
    /\ rhythm.chronotype = "Early Bird"

-----------------------------------------------------------------------------
(* C4 *)

\* C4: for every valid pair of clock times the profile has wake_time equal to
\* the wake clock time, morning_peak, dip_time and evening_peak equal to the
\* wake time plus 3, 7 and 11 hours, wrapped modulo 24 h, all as zero-padded
\* HH:MM, and bedtime equal to the sleep time string as it was given.
C4_KeyTimes ==
    (ValidPair /\ RhythmReturned) =>
        LET wake == ClockMinutes(wake_time)
        IN  /\ rhythm.wake_time = ClockString(wake)
            /\ rhythm.morning_peak = ClockString(wake + 3 * 60)
            /\ rhythm.dip_time = ClockString(wake + 7 * 60)
            /\ rhythm.evening_peak = ClockString(wake + 11 * 60)
            /\ rhythm.bedtime = sleep_time

\* A wake time whose peaks wrap past midnight, and a sleep time that is not
\* zero-padded: it comes back as it was given.
C4_Witness ==
    /\ RhythmReturned
    /\ sleep_time = <<"7", ":", "0", "5">>
    /\ wake_time = Padded(18, 45)
    /\ rhythm.dip_time = Padded(1, 45)
    /\ rhythm.evening_peak = Padded(5, 45)
    /\ rhythm.bedtime = <<"7", ":", "0", "5">>

-----------------------------------------------------------------------------
(* C5, C6 *)

RecsReturned == pc = "done" /\ chronotype /= Unset

\* 1 if the condition holds, else 0.
Count(b) == IF b THEN 1 ELSE 0

\* The texts of the conditional tips and of the marker lines.
ConditionalTexts == {DebtText, WindDownText, AvoidNapsText, CalmDownText}
MarkerTexts == <<WakeUpText, PeakText, DipText, EveningText, BedtimeText>>

\* The positions of tips that hold a tip of the given text.
Positions(text) == {i \in 1..Len(tips) : tips[i].text = text}

\* C5: the conditional tips come first and in a fixed order: a debt warning
\* if and only if debt > 1, then at most one chronotype tip (wind-down for
\* Night Owl, avoid-late-naps for Early Bird, none for any other label), then
\* a calm-down tip if and only if quality < 6; the number of tips is 5 plus
\* the number of conditional tips that fired, so between 5 and 8.
C5_ConditionalTips ==
    RecsReturned =>
        LET debtFires == sleep_debt > 100
            owl == chronotype = "Night Owl"
            bird == chronotype = "Early Bird"
            calmFires == sleep_quality < 6
            fired == Count(debtFires) + Count(owl) + Count(bird) + Count(calmFires)
        IN  /\ Len(tips) = 5 + fired
            /\ Len(tips) \in 5..8
            /\ \A i \in 1..Len(tips) : (tips[i].text \in ConditionalTexts) <=> (i <= fired)
            /\ Positions(DebtText) = (IF debtFires THEN {1} ELSE {})
            /\ Positions(WindDownText) = (IF owl THEN {1 + Count(debtFires)} ELSE {})
            /\ Positions(AvoidNapsText) = (IF bird THEN {1 + Count(debtFires)} ELSE {})
            /\ Positions(CalmDownText) = (IF calmFires THEN {fired} ELSE {})
            /\ debtFires => tips[1].value = sleep_debt

\* All three conditional tips fire for a Night Owl: 8 tips.
C5_Witness ==
    /\ RecsReturned
    /\ sleep_debt = 101
    /\ chronotype = "Night Owl"
    /\ sleep_quality = 5
    /\ Len(tips) = 8
    /\ tips[2].text = WindDownText
    /\ tips[3].text = CalmDownText

\* C6: for every debt, chronotype and quality the last five entries are the
\* five marker lines in the order wake, morning peak, afternoon dip, evening
\* peak, bedtime, each with the time of the given profile, and no conditional
\* tip is among or after them.
C6_MarkerLines ==
    RecsReturned =>
        LET n == Len(tips)
            times == <<rhythm.wake_time, rhythm.morning_peak, rhythm.dip_time,
                       rhythm.evening_peak, rhythm.bedtime>>
        IN  /\ n >= 5
            /\ \A k \in 1..5 :
                  /\ tips[n - 5 + k].text = MarkerTexts[k]
                  /\ tips[n - 5 + k].value = times[k]
            /\ \A i \in 1..n : i > n - 5 => tips[i].text \notin ConditionalTexts

\* The call of test_recommendations' shape: an Early Bird with a debt and a
\* low quality; the marker lines follow the three conditional tips, the
\* bedtime as it was given.
C6_Witness ==
    /\ RecsReturned
    /\ sleep_debt = 200
    /\ chronotype = "Early Bird"
    /\ sleep_quality = 5
    /\ Len(tips) = 8
    /\ tips[4] = Tip(WakeUpText, rhythm.wake_time)
    /\ tips[6] = Tip(DipText, Padded(1, 45))
    /\ tips[8] = Tip(BedtimeText, <<"7", ":", "0", "5">>)

-----------------------------------------------------------------------------
(* C7, C8, C9 *)

AnalyzeReturned == pc = "done" /\ analysis /= Unset

\* Every entry of logs holds two valid clock times.
ValidLogs == \A i \in 1..Len(logs) : ValidTime(logs[i][1]) /\ ValidTime(logs[i][2])

\* The debt and the chronotype the two functions give for entry i of logs, and
\* the midpoint hour of that entry in minutes.
DebtOfEntry(i) == calculate_sleep_debt(logs[i][1], logs[i][2])
ChronotypeOfEntry(i) == calculate_circadian_rhythm(logs[i][1], logs[i][2], logs[i][3]).chronotype
MidpointOfEntry(i) ==
    LET sleep == ClockMinutes(logs[i][1])
        d == (ClockMinutes(logs[i][2]) - sleep) % 1440
    IN  (sleep + d \div 2) % 1440

\* The sum of f(i) over the entries of logs.
RECURSIVE SumTo(_, _)
SumTo(f(_), n) == IF n = 0 THEN 0 ELSE f(n) + SumTo(f, n - 1)

\* The chronotype most entries of logs have, if one has a strict majority.
MajorityChronotypes ==
    {c \in {"Early Bird", "Intermediate", "Night Owl"} :
        2 * Cardinality({i \in 1..Len(logs) : ChronotypeOfEntry(i) = c}) > Len(logs)}

C8_SingleLog ==
    (ValidLogs /\ Len(logs) = 1) =>
        /\ pc /= "raised"
        /\ AnalyzeReturned =>
            /\ analysis[1] = DebtOfEntry(1)
            /\ analysis[2] = ChronotypeOfEntry(1)
            /\ analysis[3] = 10 * logs[1][3]

\* One entry with a debt that is not a whole number of hundredths before
\* rounding and an Early Bird midpoint with a minute part.
C8_Witness ==
    /\ AnalyzeReturned
    /\ logs = << <<Padded(23, 0), Padded(6, 59), 8, 5, 60>> >>
    /\ analysis = <<2, "Early Bird", 80>>

\* C9: for an empty sequence of logs analyze_sleep_logs returns
\* (0, "N/A", 0); it does not raise and its loop variables are never set.
C9_EmptyLogs ==
    (pc /= "analyze" /\ logs = <<>>) =>
        /\ pc = "done"
        /\ analysis = <<0, "N/A", 0>>
        /\ locals = Unset

\* The call on the empty list has returned.
C9_Witness ==
    /\ pc = "done"
    /\ logs = <<>>
    /\ analysis = <<0, "N/A", 0>>

-----------------------------------------------------------------------------
(* C10 *)

\* C10: when the model or the scaler is absent predict_sleep_quality returns
\* 6, whatever the sleep duration, the activity and the stress are.
C10_UntrainedDefault ==
    (pc = "done" /\ ml_model \in Models /\ (ml_model = "None" \/ ml_scaler = "None")) =>
        sleep_quality = 6

\* A call with a fitted model but no scaler has returned the default.
C10_Witness ==
    /\ pc = "done"
    /\ ml_model = "RandomForestClassifier"
    /\ ml_scaler = "None"
    /\ sleep_duration = 750
    /\ stress = 10
    /\ sleep_quality = 6

-----------------------------------------------------------------------------
(* C11 *)

\* The dataset is one train_model can fit on: the file parses, it has the six
\* columns, every feature cell is a number and every row has its label.
UsableDataset ==
    /\ dataset.file = "present"
    /\ (FeatureColumns \cup {TargetColumn}) \subseteq dataset.columns
    /\ dataset.cells = "numeric"
    /\ dataset.target = "labels"

\* C11: train_model never raises to its caller; when the dataset is missing,
\* unreadable or malformed (missing columns and a failing fit included) it
\* returns (None, None), otherwise a fitted model together with its scaler;
\* it never returns a pair in which only one of the two is present.
C11_TrainNeverRaises ==
    /\ pc /= "raised"
    /\ pc = "returned" =>
          /\ (ml_model = None) <=> (ml_scaler = None)
          /\ UsableDataset =>
                ml_model = "RandomForestClassifier" /\ ml_scaler = "StandardScaler"
          /\ ~UsableDataset => ml_model = None /\ ml_scaler = None

\* The scaler was fitted, then the fit of the classifier failed on a target
\* with gaps: neither is returned.
C11_Witness ==
    /\ pc = "returned"
    /\ dataset.file = "present"
    /\ dataset.target = "gaps"
    /\ locals.scaler = "StandardScaler"
    /\ exc = "ValueError"
    /\ ml_model = None
    /\ ml_scaler = None

-----------------------------------------------------------------------------
(* C13, C14 *)

\* The last database call was a register_user that returned a user id.
Registered ==
    /\ db_call[1] = "register_user"
    /\ db_result.raises = None
    /\ db_result.returns /= NoUser

\* C13: whatever calls came before, when register_user(name, email, password,
\* age) has returned an id u, login_user(email, password) returns (u, name)
\* and login_user with that email and any other password returns None; this
\* stays so under every later call, since no call changes what login_user
\* returns for a registered email; and login_user itself never changes the
\* stored users.
C13_RoundTrip ==
    /\ [](Registered =>
            /\ login_user(users, db_call[3], db_call[4]) = <<db_result.returns, db_call[2]>>
            /\ \A p \in Passwords \ {db_call[4]} : login_user(users, db_call[3], p) = NoRow)
    /\ [][\A e \in Emails, p \in Passwords :
            EmailTaken(users, e) => login_user(users', e, p) = login_user(users, e, p)]_vars
    /\ [][db_call'[1] = "login_user" => users' = users]_vars

\* Two users have registered with the same password and a log was stored;
\* a login with the second user's credentials returned that user's id and
\* name.
C13_Witness ==
    /\ db_call = <<"login_user", "bob@example.com", "hunter2">>
    /\ db_result.returns = <<2, "Bob">>
    /\ Len(users) = 2
    /\ users[1].password = Sha256("hunter2")
    /\ Len(sleep_logs) = 1

\* The last database call was a register_user with an email that a row
\* already had before the call.
Duplicate ==
    /\ db_call[1] = "register_user"
    /\ \E i \in 1..Len(users) :
          /\ users[i].email = db_call[3]
          /\ db_result.raises /= None \/ users[i].user_id /= db_result.returns

\* No two rows of users have the same email.
UniqueEmails ==
    \A i, j \in 1..Len(users) : users[i].email = users[j].email => i = j

\* C14 as stated: a register_user call with an email that is already
\* registered returns None, it does not raise, and it leaves the stored users
\* as they were; no two users share an email.
C14_AsStated ==
    /\ [](Duplicate => db_result.raises = None /\ db_result.returns = NoUser)
    /\ [][(db_call'[1] = "register_user" /\ EmailTaken(users, db_call'[3]))
             => users' = users]_vars
    /\ []UniqueEmails

\* C14, the part that holds: a register_user call with an email that is
\* already registered never changes the stored users, whether it returns
\* None or raises; no two users share an email; and every row keeps its id,
\* name, password digest and age under every call.
C14_UsersKept ==
    /\ [](Duplicate => db_result.returns = NoUser)
    /\ [][(db_call'[1] = "register_user" /\ EmailTaken(users, db_call'[3]))
             => users' = users]_vars
    /\ []UniqueEmails
    /\ [][\A i \in 1..Len(users) : Len(users') >= i /\ users'[i] = users[i]]_vars

\* A registration with the email of the first user, another name and another
\* password, was answered None while the table holds that one user.
C14_Witness ==
    /\ db_call = <<"register_user", "Bob", "ann@example.com", "hunter2", 25>>
    /\ db_result = [raises |-> None, returns |-> NoUser]
    /\ users = << [user_id |-> 1, name |-> "Ann", email |-> "ann@example.com",
                   password |-> Sha256("pass123"), age |-> 25] >>


-----------------------------------------------------------------------------
(* C12 *)

\* A callback has just called ml.predict_sleep_quality: log_sleep reached its
\* report.
PredictIssued == event[1] = "log_sleep" /\ event[2] = "report shown"

\* C12: in the application the pair (ml_model, ml_scaler) is assigned once,
\* by the train_model call of __init__, which ends with the fitted pair or
\* with (None, None) before the main loop serves any callback; every
\* predict_sleep_quality call is made with that pair, and no callback (login,
\* register, log_sleep, save_report, the frame buttons) assigns it or runs a
\* step of train_model again.
C12_TrainedOnce ==
    /\ [](MainloopRunning(pc) =>
            \/ ml_model = None /\ ml_scaler = None
            \/ ml_model = "RandomForestClassifier" /\ ml_scaler = "StandardScaler")
    /\ [][PredictIssued' => ml_model /= Unset /\ ml_scaler /= Unset]_vars
    /\ [][ml_model /= Unset => UNCHANGED <<ml_model, ml_scaler>>]_vars
    /\ [][MainloopRunning(pc) =>
            MainloopRunning(pc') /\ UNCHANGED <<ml_model, ml_scaler, exc, dataset>>]_vars

\* A report was computed with the fitted pair after a registration, and was
\* then saved.
C12_Witness ==
    /\ pc = "result"
    /\ event[1] = "save_report"
    /\ ml_model = "RandomForestClassifier"
    /\ ml_scaler = "StandardScaler"
    /\ Len(users) > 0
    /\ Len(sleep_logs) > 0

-----------------------------------------------------------------------------
(* C16 *)

\* The form a log_sleep callback read has an energy or a stress level outside
\* 1-10, or a negative activity.
OutOfRange(form) ==
    \/ form[3] < 1 \/ form[3] > 10
    \/ form[4] < 1 \/ form[4] > 10
    \/ form[5] /= <<>> /\ ~IntRaises(form[5]) /\ IntOf(form[5]) < 0

\* The last callback was log_sleep on such a form.
SubmittedOutOfRange == event[1] = "log_sleep" /\ OutOfRange(event[3])

\* C16 as the claim states it: a submission with energy or stress outside
\* 1-10, or with a negative activity, ends with the range error in an error
\* box, stores no row and computes no report.
C16_AsStated ==
    /\ [](SubmittedOutOfRange =>
            event[2] = "error shown" /\ message = <<"showerror", RangeText>>)
    /\ [][SubmittedOutOfRange' => UNCHANGED <<sleep_logs, reportVars>>]_vars

\* C16, the part that holds: such a submission stores no row and leaves the
\* report and the frame as they were; it ends with the range error in an
\* error box when a level is above 10 or below 0 or the activity is negative,
\* and with an exception of database.log_sleep, no box shown, when the levels
\* are within 0-10 and one of them is 0.
C16_NothingStored ==
    /\ [](SubmittedOutOfRange =>
            IF \/ event[3][3] < 0 \/ event[3][3] > 10
               \/ event[3][4] < 0 \/ event[3][4] > 10
               \/ ~(event[3][3] = 0 \/ event[3][4] = 0)
            THEN event[2] = "error shown" /\ message = <<"showerror", RangeText>>
            ELSE event[2] \in {"IntegrityError", "OperationalError"} /\ message = <<>>)
    /\ [][SubmittedOutOfRange' => UNCHANGED <<sleep_logs, reportVars, pc>>]_vars

\* Energy 0 was submitted: no box was shown, the quick-fill inputs hold the
\* 0, and the connection of database.log_sleep still holds the lock.
C16_Witness ==
    /\ event[1] = "log_sleep"
    /\ event[3][3] = 0
    /\ event[2] = "IntegrityError"
    /\ message = <<>>
    /\ last_inputs.energy = 0
    /\ db_lock = TRUE
    /\ sleep_logs = <<>>

-----------------------------------------------------------------------------
(* C15 *)

\* s is a zero-padded HH:MM string of the 24-hour day.
ZeroPadded(s) == \E h \in 0..23, m \in 0..59 : s = Padded(h, m)

\* C15 as the claim states it: the two functions accept a pair of strings
\* only if both are zero-padded HH:MM, and fail on every other shape.
C15_AsStated ==
    /\ pc /= "debt" =>
          (pc /= "raised" <=> ZeroPadded(sleep_time) /\ ZeroPadded(wake_time))
    /\ ~CircadianRhythmRaises(sleep_time, wake_time) <=>
          ZeroPadded(sleep_time) /\ ZeroPadded(wake_time)

\* C15, amended: calculate_sleep_debt and calculate_circadian_rhythm accept a
\* pair of strings exactly when each writes an hour 0-23 and a minute 0-59,
\* either with one or two digits, around one colon; on every other pair
\* (hour 24, minute 60, no colon, more digits, nothing) the call raises and
\* no result is returned. A one-digit spelling is read as the same time as
\* its zero-padded spelling.
C15_ClockTimes ==
    /\ pc /= "debt" => (pc = "raised" <=> ~ValidPair)
    /\ pc = "raised" => sleep_debt = Unset /\ rhythm = Unset
    /\ SleepDebtRaises(sleep_time, wake_time) <=> ~ValidPair
    /\ CircadianRhythmRaises(sleep_time, wake_time) <=> ~ValidPair
    /\ (RhythmReturned /\ ~ZeroPadded(sleep_time)) =>
          /\ sleep_debt = calculate_sleep_debt(ClockString(ClockMinutes(sleep_time)),
                                               ClockString(ClockMinutes(wake_time)))
          /\ rhythm.midpoint =
                calculate_circadian_rhythm(ClockString(ClockMinutes(sleep_time)),
                                           ClockString(ClockMinutes(wake_time)),
                                           energy).midpoint

\* Both functions returned for a sleep time written "7:5" and a wake time
\* written "07:5".
C15_Witness ==
    /\ RhythmReturned
    /\ sleep_time = <<"7", ":", "5">>
    /\ wake_time = <<"0", "7", ":", "5">>
    /\ sleep_debt = 800

-----------------------------------------------------------------------------
(* C18, C19 *)

\* The locals of the calculate_circadian_rhythm call that returned.
Anchors == locals.calculate_circadian_rhythm

\* The clock hour, in minutes, that an anchor stands for.
ClockOf(x) == x[1]

\* The seven anchor hours of the claim, in minutes: [0, wake, wake+3, wake+7,
\* wake+11, sleep, 24], the derived ones modulo 24 h.
ClaimedAnchors ==
    LET w == ClockMinutes(wake_time)
        s == ClockMinutes(sleep_time)
    IN  <<0, w, (w + 180) % 1440, (w + 420) % 1440, (w + 660) % 1440, s, 1440>>

\* The weights of the claim, in tenths: [2, 2, 10, 3, 7, 2, 2] * energy / 10.
ClaimedWeights == [i \in 1..7 |-> <<2, 2, 10, 3, 7, 2, 2>>[i] * energy]

\* The anchors and weights are the seven of the claim, in its order.
SevenAnchors ==
    /\ [i \in 1..Len(Anchors.key_hours) |-> ClockOf(Anchors.key_hours[i])] = ClaimedAnchors
    /\ Anchors.adjusted_energy = ClaimedWeights

\* One control point per clock hour among the anchors, in ascending order of
\* hour, each with the weight of the first anchor on its hour.
OnePerHour ==
    LET uh == Anchors.unique_hours
        ue == Anchors.unique_energy
    IN  /\ Len(uh) = Cardinality({ClaimedAnchors[k] : k \in 1..7})
        /\ Len(ue) = Len(uh)
        /\ \A i \in 1..(Len(uh) - 1) : ClockOf(uh[i]) < ClockOf(uh[i + 1])
        /\ \A i \in 1..Len(uh) :
              ue[i] = ClaimedWeights[CHOOSE k \in 1..7 :
                          /\ ClaimedAnchors[k] = ClockOf(uh[i])
                          /\ \A j \in 1..(k - 1) : ClaimedAnchors[j] /= ClockOf(uh[i])]

\* C18 as the claim states it: the control points are built from the seven
\* anchors and weights, one control point is kept for each hour on which
\* anchors fall, with the weight of the first of them, and the control
\* points are strictly ascending in hour.
C18_AsStated == RhythmReturned => SevenAnchors /\ OnePerHour

\* C18, the part that holds: the anchors and weights are the seven of the
\* claim; the control points are the distinct doubles among the anchors,
\* strictly ascending, each with the weight of the first anchor equal to it
\* as a double (the control point at hour 0 always has weight 2 * energy /
\* 10); one control point per hour is kept when both times are on a quarter
\* hour, as all times of the dropdowns are.
C18_DistinctDoubles ==
    RhythmReturned =>
        LET kh == Anchors.key_hours
            uh == Anchors.unique_hours
            ue == Anchors.unique_energy
        IN  /\ SevenAnchors
            /\ {uh[i] : i \in 1..Len(uh)} = {kh[k] : k \in 1..7}
            /\ \A i \in 1..(Len(uh) - 1) : FloatLess(uh[i], uh[i + 1])
            /\ Len(ue) = Len(uh)
            /\ \A i \in 1..Len(uh) :
                  ue[i] = ClaimedWeights[CHOOSE k \in 1..7 :
                              kh[k] = uh[i] /\ \A j \in 1..(k - 1) : kh[j] /= uh[i]]
            /\ uh[1] = <<0, 0>> /\ ue[1] = 2 * energy
            /\ (ClockMinutes(sleep_time) % QuarterHour = 0
                  /\ ClockMinutes(wake_time) % QuarterHour = 0) => OnePerHour

\* Sleep 03:29, wake 00:29: wake + 3 and sleep are both 03:29, yet they are
\* two doubles and both are control points, with weights 10 and 2.
C18_Witness ==
    /\ RhythmReturned
    /\ sleep_time = Padded(3, 29)
    /\ wake_time = Padded(0, 29)
    /\ ClockOf(Anchors.key_hours[3]) = ClockOf(Anchors.key_hours[6])
    /\ Anchors.key_hours[3] /= Anchors.key_hours[6]
    /\ Len(Anchors.unique_hours) = 7

\* C19: the control points of every accepted pair of times lie in [0, 24],
\* begin with 0.0 and end with 24.0, both with weight 2 * energy / 10, and
\* number 5 to 7, so the cubic fit has its 4 points; the sleep anchor, taken
\* modulo 24 after the + 24, is below 24 like the wake anchors; and none of
\* the 100 sample hours, which run from 0 to 24, is given the fill value.
C19_AnchorRange ==
    RhythmReturned =>
        LET kh == Anchors.key_hours
            uh == Anchors.unique_hours
            ue == Anchors.unique_energy
            n == Len(uh)
        IN  /\ n >= 5 /\ n <= 7 /\ Len(ue) = n
            /\ uh[1] = <<0, 0>> /\ uh[n] = <<1440, 0>>
            /\ ue[1] = 2 * energy /\ ue[n] = 2 * energy
            /\ \A i \in 1..n : ~FloatLess(uh[i], <<0, 0>>) /\ ~FloatLess(<<1440, 0>>, uh[i])
            /\ \A k \in 2..6 : FloatLess(kh[k], <<1440, 0>>)
            /\ Len(hours) = 100
            /\ hours[1][1] = 0 /\ hours[100][1] = 24 * hours[100][2]
            /\ \A j \in 1..100 : ~Filled(hours[j], uh)
            /\ FillValue(energy) = ue[1]

\* Sleep and wake at 13:00: wake + 11 wraps to 0 and the sleep anchor falls
\* on the wake anchor, which leaves five control points.
C19_Witness ==
    /\ RhythmReturned
    /\ sleep_time = Padded(13, 0)
    /\ wake_time = Padded(13, 0)
    /\ Len(Anchors.unique_hours) = 5
    /\ Anchors.key_hours[5] = <<0, 0>>
    /\ Anchors.key_hours[6] = Anchors.key_hours[2]

-----------------------------------------------------------------------------
(* C20 *)

\* Every entry of logs has the chronotype c on its own.
Unanimous(c) == \A i \in 1..Len(logs) : ChronotypeOfEntry(i) = c

\* C20: when every entry of a non-empty sequence of valid logs has the same
\* chronotype on its own, analyze_sleep_logs returns that chronotype as the
\* average chronotype, whatever the length and the order of the sequence.
C20_Unanimous ==
    \A c \in {"Early Bird", "Intermediate", "Night Owl"} :
        (ValidLogs /\ Len(logs) > 0 /\ Unanimous(c)) =>
            /\ pc /= "raised"
            /\ AnalyzeReturned => analysis[2] = c

\* Three Night Owls with the midpoints 23:00, 06:00 and 23:00: the mean of
\* the midpoint hours is far from each of them and the result is Night Owl.
C20_Witness ==
    /\ AnalyzeReturned
    /\ Len(logs) = 3
    /\ Unanimous("Night Owl")
    /\ logs[1][1] = Padded(19, 0)
    /\ logs[2][1] = Padded(2, 0)
    /\ logs[3][1] = Padded(19, 0)
    /\ analysis[2] = "Night Owl"

-----------------------------------------------------------------------------
(* C21 *)

\* A report is on the result frame: sleep_time, wake_time, sleep_debt and
\* sleep_duration are those of the accepted submission that made it.
ReportShown == pc = "result"

\* C21: on every accepted submission the duration passed to
\* predict_sleep_quality is 8 h minus the computed debt, which is the smaller
\* of the sleep duration ((wake - sleep) modulo 24 h) and 8 h: the duration
\* itself for a sleep of at most 8 h, exactly 8 h for a longer one, always
\* within [0, 8] h; the debt is never above 8 h, so the fallback 0 of line
\* 390 is never taken. (Hundredths of an hour against minutes.)
C21_DurationPassed ==
    ReportShown =>
        /\ sleep_debt = calculate_sleep_debt(sleep_time, wake_time)
        /\ sleep_debt <= 800
        /\ sleep_duration = 800 - sleep_debt
        /\ sleep_duration >= 0 /\ sleep_duration <= 800
        /\ ClockDuration <= 480 => 60 * sleep_duration = 100 * ClockDuration
        /\ ClockDuration > 480 => sleep_duration = 800
        /\ event[1] = "log_sleep" /\ event[2] = "report shown" =>
              /\ event[3][1] = sleep_time /\ event[3][2] = wake_time
              /\ stress = event[3][4]

\* A sleep of 8 h 30 min (22:45 to 07:15) was accepted and 8 h were passed.
C21_Witness ==
    /\ ReportShown
    /\ event[2] = "report shown"
    /\ sleep_time = Padded(22, 45)
    /\ wake_time = Padded(7, 15)
    /\ ClockDuration = 510
    /\ sleep_debt = 0
    /\ sleep_duration = 800

====
